---- MODULE Spec2Model ----
(***************************************************************************)
(* Model of the sys backend's host/guest call bridge of the wasmer API     *)
(* crate: the store registry, Function::call with its marshal / invoke /   *)
(* resumption-hook / unmarshal sequence, the dynamic host-function         *)
(* wrapper, and the store identity checks of Function and ExternRef.       *)
(* Further specifications over the same variables model the conversions of *)
(* entities through their native form (SpecEntity), globals (SpecGlobal)   *)
(* and the dispatch over the backend variants (SpecBackend).               *)
(***************************************************************************)
EXTENDS Integers, Sequences, FiniteSets, TLC

VARIABLES
    objects,    \* StoreInner.objects of each store: its id and its object lists
    on_called,  \* StoreInner.on_called of each store: 0 (None) or a hook id
    entities,   \* the Function / ExternRef values the embedder holds
    nextHook,   \* the next hook id to hand out (hooks are distinct closures)
    evalCount,  \* how many times each hook closure has been called
    call,       \* the Function::call in progress, or the idle record
    globals,    \* the globals of each store's registry
    backend,    \* the backend of each store (RuntimeStore variant)
    held,       \* a backend-polymorphic value the embedder holds
    last        \* the last operation done outside Function::call, and its outcome

\* the variables of the call bridge, and the others
bridgeVars == <<objects, on_called, entities, nextHook, evalCount, call>>
extVars == <<globals, backend, held, last>>
vars == <<objects, on_called, entities, nextHook, evalCount, call,
          globals, backend, held, last>>

\* ------------------------------------------------------------------ bounds

\* objects allocated in all stores together
MaxObjects == 2
\* hooks installed in one behaviour
MaxHooks == 2

\* ------------------------------------------------------------ vocabulary

Stores == {"A", "B"}

\* the process-unique tag minted for a store
MintStoreId(s) == IF s = "A" THEN 1 ELSE 2

Types == {"I32", "I64", "F32", "F64", "V128", "ExternRef", "FuncRef"}

\* A Value: I32(b), I64 as its two 32-bit halves (a high, b low),
\* ExternRef / FuncRef as a handle (a its store id, b its index), null = 0, 0.
\* F32 and F64 are held as their bit patterns, like I32 and I64; a V128 as its
\* low word b and, in a, the word above it and the upper 64 bits.
Val(ty, a, b) == [ty |-> ty, a |-> a, b |-> b]
I32(v) == Val("I32", 0, v)
I64(h, l) == Val("I64", h, l)
F32(v) == Val("F32", 0, v)
F64(h, l) == Val("F64", h, l)
V128(top, h, l) == Val("V128", <<top, h>>, l)
NullRef(ty) == Val(ty, 0, 0)
RefOf(ty, h) == Val(ty, h.store_id, h.idx)
HandleOf(v) == [store_id |-> v.a, idx |-> v.b]
IsRefType(ty) == ty \in {"ExternRef", "FuncRef"}

Sig(p, r) == [params |-> p, results |-> r]
\* the signatures host functions are declared with
Signatures ==
    { Sig(<<"ExternRef", "FuncRef">>, <<"I64", "ExternRef">>) }

TypesOf(vals) == [i \in DOMAIN vals |-> vals[i].ty]

Max(a, b) == IF a >= b THEN a ELSE b

\* RuntimeError values
NoError == [kind |-> "none", what |-> "none"]
RuntimeErrorNew(msg) == [kind |-> "error", what |-> msg]
RuntimeErrorUser(e) == [kind |-> "user", what |-> e]
ErrParams == RuntimeErrorNew("Parameters did not match signature")
ErrResults == RuntimeErrorNew("Results did not match signature")
ErrCrossStore == RuntimeErrorNew("cross-Store values are not supported")
ErrWrongSignature == RuntimeErrorNew("Dynamic function returned wrong signature")
ErrWrongContext == RuntimeErrorNew("object used with the wrong context")

\* Result<(), Trap> of one native invocation
ROk == [ok |-> TRUE, err |-> NoError]
RErr(e) == [ok |-> FALSE, err |-> e]

\* ---------------------------------------------------------------- registry

NullHandle == [store_id |-> 0, idx |-> 0]

\* StoreObjects of a fresh store
NewStoreObjects(s) == [id |-> MintStoreId(s), functions |-> << >>, extern_objs |-> << >>]

\* StoreObjects::id
StoreObjectsId(objs) == objs.id

\* StoreHandle::new on the functions list: the object is appended and the handle
\* carries the registry's id and the object's position
StoreHandleNewFunction(objs, vm_function) ==
    [objs |-> [objs EXCEPT !.functions = Append(@, vm_function)],
     handle |-> [store_id |-> objs.id, idx |-> Len(objs.functions) + 1]]

\* StoreHandle::new on the extern objects list
StoreHandleNewExternObj(objs, obj) ==
    [objs |-> [objs EXCEPT !.extern_objs = Append(@, obj)],
     handle |-> [store_id |-> objs.id, idx |-> Len(objs.extern_objs) + 1]]

\* VMExternObj::new(value): the value boxed with its type T
VMExternObjNew(T, value) == [tid |-> T, val |-> value]

\* downcast_ref::<T> of the boxed value: the value when it is of type T
VMExternObjDowncastRef(obj, T) ==
    IF obj.tid = T THEN [some |-> TRUE, val |-> obj.val]
    ELSE [some |-> FALSE, val |-> 0]

\* the boxed value returned whatever its type
ExternRefDowncastAnyType(e, objs, T) ==
    [some |-> TRUE, val |-> objs.extern_objs[e.idx].val]

\* ExternRef::downcast::<T>: the object behind the handle, downcast to T
ExternRefDowncast(e, objs, T) == VMExternObjDowncastRef(objs.extern_objs[e.idx], T)

\* StoreHandle::get succeeds only on the registry the handle was made by
StoreHandleGetOk(h, objs) == h.store_id = objs.id

\* Function::ty: the signature of the VMFunction behind the handle
FunctionTy(f, objs) == objs.functions[f.idx].signature

\* the handle's index compared instead of its store id
FunctionIsFromStoreByIndex(f, objs) == f.idx = StoreObjectsId(objs)

\* Function::is_from_store
FunctionIsFromStore(f, objs) == f.store_id = StoreObjectsId(objs)

\* ExternRef::is_from_store
ExternRefIsFromStore(e, objs) == e.store_id = StoreObjectsId(objs)

\* Value::is_from_store: numbers and null references belong to every store
ValueIsFromStore(v, objs) ==
    IF ~IsRefType(v.ty) \/ v.b = 0 THEN TRUE
    ELSE IF v.ty = "ExternRef" THEN ExternRefIsFromStore(HandleOf(v), objs)
    ELSE FunctionIsFromStore(HandleOf(v), objs)

\* ------------------------------------------------------------- raw values

\* A RawValue slot, as its low 32 bits, the 32 bits above them and the upper
\* 64 bits, which only a V128 uses.
Raw128(lo, hi, top) == [lo |-> lo, hi |-> hi, top |-> top]
Raw(lo, hi) == Raw128(lo, hi, 0)
\* RawValue { i32: 0 }
RawZero == Raw(0, 0)

\* ExternRef::vm_externref: the internal handle, without the store id
VmExternref(e) == e.idx

\* ExternRef::from_vm_externref: the internal handle tagged with the id of the
\* store it is presented to
FromVmExternref(objs, internal) == [store_id |-> StoreObjectsId(objs), idx |-> internal]

\* Value::as_raw
ValueAsRaw(v) ==
    CASE v.ty = "I32" -> Raw(v.b, 0)
      [] v.ty = "I64" -> Raw(v.b, v.a)
      [] v.ty = "F32" -> Raw(v.b, 0)
      [] v.ty = "F64" -> Raw(v.b, v.a)
      [] v.ty = "V128" -> Raw128(v.b, v.a[2], v.a[1])
      [] v.ty = "ExternRef" -> IF v.b = 0 THEN RawZero ELSE Raw(VmExternref(HandleOf(v)), 0)
      [] v.ty = "FuncRef" -> IF v.b = 0 THEN RawZero ELSE Raw(v.b, 0)

\* Value::from_raw
ValueFromRaw(objs, ty, raw) ==
    CASE ty = "I32" -> I32(raw.lo)
      [] ty = "I64" -> I64(raw.hi, raw.lo)
      [] ty = "F32" -> F32(raw.lo)
      [] ty = "F64" -> F64(raw.hi, raw.lo)
      [] ty = "V128" -> V128(raw.top, raw.hi, raw.lo)
      [] ty = "ExternRef" ->
            IF raw.lo = 0 THEN NullRef(ty) ELSE RefOf(ty, FromVmExternref(objs, raw.lo))
      [] ty = "FuncRef" ->
            IF raw.lo = 0 THEN NullRef(ty)
            ELSE RefOf(ty, [store_id |-> StoreObjectsId(objs), idx |-> raw.lo])

\* Value::null()
ValueNull == NullRef("FuncRef")

\* ------------------------------------------------------- Function::call

NoOutcome == [kind |-> "none", err |-> NoError]
NoReturn == [kind |-> "none", vals |-> << >>, err |-> NoError]

\* No call in progress. The fields of a call: its position (pc), the callee, the
\* store and the arguments; values_vec (buf); the last trampoline result (r); the
\* result vector; and the history the properties read: trampoline invocations,
\* the outcomes of the hooks the loop evaluated (hooks), the hook being run and
\* the store's hook slot when it was called, the last return of the closure and
\* the buffer it was called with, the buffer the last invocation left
\* (bufLeft), result slots read (reads), the first
\* invocation that trapped (trapAt), its error and whether a hook was pending.
Idle ==
    [pc |-> "idle", func |-> NullHandle, store |-> "A", params |-> << >>,
     buf |-> << >>, r |-> ROk, results |-> << >>, outcome |-> NoOutcome,
     invocations |-> 0, hooks |-> << >>, running |-> 0, slotAtEval |-> 0,
     lastRet |-> NoReturn, bufAtCall |-> << >>, bufLeft |-> << >>, reads |-> 0,
     trapAt |-> 0, trapErr |-> NoError, trapHook |-> FALSE]

\* fewer arguments than parameters accepted
ParamsArityAtMost(sig, params) == Len(params) <= Len(sig.params)

\* call_wasm: the parameter count check
ParamsArityOk(sig, params) == Len(sig.params) = Len(params)

\* call_wasm: the result count check
ResultsArityOk(sig, results) == Len(sig.results) = Len(results)

\* call_wasm: the kind check of one argument
ArgTypeOk(arg, ty) == arg.ty = ty

\* only ExternRef arguments checked
ArgStoreOkExternOnly(arg, objs) == arg.ty # "ExternRef" \/ ValueIsFromStore(arg, objs)

\* call_wasm: the store check of one argument
ArgStoreOk(arg, objs) == ValueIsFromStore(arg, objs)

Min3(a, b, c) == IF a <= b /\ a <= c THEN a ELSE IF b <= c THEN b ELSE c

\* call_wasm: the loop that stores the arguments into values_vec, from
\* position i on; it ends with the shortest of params, values_vec and the
\* parameter kinds
RECURSIVE MarshalArgs(_, _, _, _, _)
MarshalArgs(objs, sig, params, i, buf) ==
    IF i > Min3(Len(params), Len(buf), Len(sig.params))
    THEN [err |-> NoError, buf |-> buf]
    ELSE IF ~ArgTypeOk(params[i], sig.params[i])
    THEN [err |-> ErrParams, buf |-> buf]
    ELSE IF ~ArgStoreOk(params[i], objs)
    THEN [err |-> ErrCrossStore, buf |-> buf]
    ELSE MarshalArgs(objs, sig, params, i + 1, [buf EXCEPT ![i] = ValueAsRaw(params[i])])

\* call_wasm, up to the call of call_wasm_raw: the error it returns, or the
\* values_vec it passes on
CallWasm(objs, f, params, results) ==
    LET signature == FunctionTy(f, objs)
        values_vec == [i \in 1..Max(Len(params), Len(results)) |-> RawZero]
    IN  IF ~ParamsArityOk(signature, params) THEN [err |-> ErrParams, buf |-> << >>]
        ELSE IF ~ResultsArityOk(signature, results) THEN [err |-> ErrResults, buf |-> << >>]
        ELSE MarshalArgs(objs, signature, params, 1, values_vec)

\* the wrapper of a dynamic function: the dynamic check of the returned kinds
ReturnTypesMatch(returns, sig) == TypesOf(returns) = sig.results

\* the first returned value written to every slot
WriteReturnsFirstOnly(buf, returns) ==
    [i \in DOMAIN buf |-> IF i <= Len(returns) THEN ValueAsRaw(returns[1]) ELSE buf[i]]

\* the wrapper of a dynamic function: the returned values written over the
\* first slots of values_vec
WriteReturns(buf, returns) ==
    [i \in DOMAIN buf |-> IF i <= Len(returns) THEN ValueAsRaw(returns[i]) ELSE buf[i]]

\* every argument read from the first slot
WrapperArgsFirstSlot(objs, sig, buf) ==
    [i \in 1..Len(sig.params) |-> ValueFromRaw(objs, sig.params[i], buf[1])]

\* the wrapper of a dynamic function: the arguments read out of values_vec by
\* the declared parameter kinds, slot i for parameter i
WrapperArgs(objs, sig, buf) ==
    [i \in 1..Len(sig.params) |-> ValueFromRaw(objs, sig.params[i], buf[i])]

\* the returned values written before their kinds are checked
DynamicWrapperWritesFirst(sig, buf, ret) ==
    IF ret.kind = "err" THEN [r |-> RErr(ret.err), buf |-> buf]
    ELSE IF ~ReturnTypesMatch(ret.vals, sig)
    THEN [r |-> RErr(ErrWrongSignature), buf |-> WriteReturns(buf, ret.vals)]
    ELSE [r |-> ROk, buf |-> WriteReturns(buf, ret.vals)]

\* the wrapper of a dynamic function, after the closure returned ret:
\* the trampoline's result and the buffer
DynamicWrapper(sig, buf, ret) ==
    IF ret.kind = "err" THEN [r |-> RErr(ret.err), buf |-> buf]
    ELSE IF ~ReturnTypesMatch(ret.vals, sig) THEN [r |-> RErr(ErrWrongSignature), buf |-> buf]
    ELSE [r |-> ROk, buf |-> WriteReturns(buf, ret.vals)]

\* func_wrapper: what catch_unwind hands to the match, the wrapper's result r
\* or the panic caught on the host stack
CatchUnwind(ret, r) ==
    IF ret.kind = "panic" THEN [caught |-> TRUE, r |-> ROk]
    ELSE [caught |-> FALSE, r |-> r]

\* a caught panic raised as a user trap
FuncWrapperPanicAsTrap(result) ==
    IF result.caught
    THEN [do |-> "raise_user_trap", r |-> RErr(RuntimeErrorNew("panic"))]
    ELSE IF result.r.ok THEN [do |-> "return", r |-> ROk]
    ELSE [do |-> "raise_user_trap", r |-> RErr(result.r.err)]

\* a caught panic dropped
FuncWrapperPanicSwallowed(result) ==
    IF result.caught THEN [do |-> "return", r |-> ROk]
    ELSE IF result.r.ok THEN [do |-> "return", r |-> ROk]
    ELSE [do |-> "raise_user_trap", r |-> RErr(result.r.err)]

\* func_wrapper: Ok(Ok(())) returns to the guest, Ok(Err(trap)) raises the
\* error as a user trap, which the trampoline returns as the call's error,
\* Err(panic) resumes the panic
FuncWrapper(result) ==
    IF result.caught THEN [do |-> "resume_panic", r |-> ROk]
    ELSE IF result.r.ok THEN [do |-> "return", r |-> ROk]
    ELSE [do |-> "raise_user_trap", r |-> RErr(result.r.err)]

\* call_wasm_raw: the return values loaded out of values_vec
LoadResults(objs, sig, buf) ==
    [i \in 1..Len(sig.results) |-> ValueFromRaw(objs, sig.results[i], buf[i])]

\* the results loaded whatever the trampoline returned
FinishCallLoadsAlways(c, objs) ==
    LET signature == FunctionTy(c.func, objs)
    IN [c EXCEPT !.pc = "done",
                 !.outcome = IF c.r.ok THEN [kind |-> "ok", err |-> NoError]
                             ELSE [kind |-> "err", err |-> c.r.err],
                 !.results = LoadResults(objs, signature, c.buf),
                 !.reads = Len(signature.results)]

\* call_wasm_raw after the loop: the trampoline's error returned, or the
\* results loaded; params[index] panics at the first index the vector does
\* not have
FinishCall(c, objs) ==
    IF ~c.r.ok
    THEN [c EXCEPT !.pc = "done", !.outcome = [kind |-> "err", err |-> c.r.err]]
    ELSE LET signature == FunctionTy(c.func, objs)
         IN IF Len(c.buf) < Len(signature.results)
            THEN [c EXCEPT !.pc = "done",
                           !.outcome = [kind |-> "index_panic", err |-> NoError],
                           !.reads = Len(c.buf)]
            ELSE [c EXCEPT !.pc = "done",
                           !.outcome = [kind |-> "ok", err |-> NoError],
                           !.results = LoadResults(objs, signature, c.buf),
                           !.reads = Len(signature.results)]

\* the arguments marshaled again for the next invocation
InvokeAgainParamsRemarshaled(c, objs) ==
    CallWasm(objs, c.func, c.params, c.results).buf

\* call_wasm_raw, continue: the loop passes the same params vector to the
\* trampoline again
InvokeAgainParams(c, objs) == c.buf

\* the arms of InvokeAgain and Finish exchanged
HookActionSwapped(out) ==
    CASE out.act = "InvokeAgain" -> "break"
      [] out.act = "Finish" -> "continue"
      [] out.act = "Trap" -> "return"
      [] out.act = "Err" -> "return"

\* Trap handled like Finish
HookActionTrapBreaks(out) ==
    CASE out.act = "InvokeAgain" -> "continue"
      [] out.act = "Finish" -> "break"
      [] out.act = "Trap" -> "break"
      [] out.act = "Err" -> "return"

\* Finish handled like InvokeAgain
HookActionFinishContinues(out) ==
    CASE out.act = "InvokeAgain" -> "continue"
      [] out.act = "Finish" -> "continue"
      [] out.act = "Trap" -> "return"
      [] out.act = "Err" -> "return"

\* a failing hook treated as Finish
HookActionErrBreaks(out) ==
    CASE out.act = "InvokeAgain" -> "continue"
      [] out.act \in {"Finish", "Err"} -> "break"
      [] OTHER -> "return"

\* the loop continued whatever the hook answers
HookActionAlwaysContinues(out) == "continue"

\* call_wasm_raw: what the loop does with the hook's answer
HookAction(out) ==
    CASE out.act = "InvokeAgain" -> "continue"
      [] out.act = "Finish" -> "break"
      [] out.act = "Trap" -> "return"
      [] out.act = "Err" -> "return"

\* the hook read without being taken
TakeLeavesHook(h) == h

\* call_wasm_raw: on_called.take() leaves None in the store
TakeLeaves(h) == 0

\* ----------------------------------------------------------------- inputs

\* the longest list of a declared signature: argument lists and the lists a
\* closure returns are as long as that, or shorter
LongestOf(sigs) ==
    CHOOSE n \in 0..4 :
        /\ \A g \in sigs : Len(g.params) <= n /\ Len(g.results) <= n
        /\ \E g \in sigs : Len(g.params) = n \/ Len(g.results) = n
MaxLen == LongestOf(Signatures)

SeqsUpTo(S, n) == UNION {[1..k -> S] : k \in 0..n}

Refs(type, ty) == {RefOf(ty, e.handle) : e \in {x \in entities : x.type = type}}

\* the values the embedder passes as arguments
ArgValues ==
    {I32(2), NullRef("ExternRef")}
        \cup Refs("extern", "ExternRef") \cup Refs("func", "FuncRef")

\* the values a host closure returns
RetValues == {I32(2), I64(1, 7)} \cup Refs("extern", "ExternRef")

HostError == RuntimeErrorNew("host error")

\* what a host closure does when called: return a list, return an error, panic
ClosureOutcomes ==
    {[kind |-> "ok", vals |-> l, err |-> NoError] : l \in SeqsUpTo(RetValues, MaxLen)}
        \cup {[kind |-> "err", vals |-> << >>, err |-> HostError],
              [kind |-> "panic", vals |-> << >>, err |-> NoError]}

HookErrors == {"e1", "e2"}

\* what a hook answers: Ok(InvokeAgain), Ok(Finish), Ok(Trap(e)), Err(e)
HookOutcomes ==
    {[act |-> "InvokeAgain", e |-> "none"], [act |-> "Finish", e |-> "none"]}
        \cup {[act |-> a, e |-> e] : a \in {"Trap", "Err"}, e \in HookErrors}

\* ---------------------------------------------------------------- actions

\* no operation done yet
NoOp == [op |-> "none"]
\* no value held
NoEntity == [kind |-> "none", variant |-> "none", inner |-> 0]

\* the state outside the call bridge: sys stores without globals
InitExt ==
    /\ globals = [s \in Stores |-> << >>]
    /\ backend = [s \in Stores |-> "sys"]
    /\ held = NoEntity
    /\ last = NoOp

Init ==
    /\ objects = [s \in Stores |-> NewStoreObjects(s)]
    /\ on_called = [s \in Stores |-> 0]
    /\ entities = {}
    /\ nextHook = 1
    /\ evalCount = [h \in 1..MaxHooks |-> 0]
    /\ call = Idle
    /\ InitExt

\* the new function put in the place of the store's first function
NewWithEnvReplaces(s, ty) ==
    /\ call.pc = "idle"
    /\ Cardinality(entities) < MaxObjects
    /\ LET vm_function == [kind |-> "Dynamic", signature |-> ty]
           new == StoreHandleNewFunction(objects[s], vm_function)
       IN IF Len(objects[s].functions) = 0
          THEN /\ objects' = [objects EXCEPT ![s] = new.objs]
               /\ entities' = entities \cup {[origin |-> s, type |-> "func", handle |-> new.handle]}
          ELSE /\ objects' = [objects EXCEPT ![s].functions[1] = vm_function]
               /\ entities' = entities
    /\ UNCHANGED <<on_called, nextHook, evalCount, call>>
    /\ UNCHANGED extVars

\* Function::new_with_env on store s with signature ty
NewWithEnv(s, ty) ==
    /\ call.pc = "idle"
    /\ Cardinality(entities) < MaxObjects
    /\ LET vm_function == [kind |-> "Dynamic", signature |-> ty]
           new == StoreHandleNewFunction(objects[s], vm_function)
       IN /\ objects' = [objects EXCEPT ![s] = new.objs]
          /\ entities' = entities \cup {[origin |-> s, type |-> "func", handle |-> new.handle]}
    /\ UNCHANGED <<on_called, nextHook, evalCount, call>>
    /\ UNCHANGED extVars

\* ExternRef::new on store s
ExternRefNew(s) ==
    /\ call.pc = "idle"
    /\ Cardinality(entities) < MaxObjects
    /\ LET new == StoreHandleNewExternObj(objects[s], VMExternObjNew("u32", 1))
       IN /\ objects' = [objects EXCEPT ![s] = new.objs]
          /\ entities' = entities \cup {[origin |-> s, type |-> "extern", handle |-> new.handle]}
    /\ UNCHANGED <<on_called, nextHook, evalCount, call>>
    /\ UNCHANGED extVars

\* A hook is installed in store s: by the embedder between calls, by the host
\* function during a native invocation, or by a hook while it runs.
OnCalled(s) ==
    /\ nextHook <= MaxHooks
    /\ \/ call.pc = "idle"
       \/ call.pc \in {"in_native", "in_hook"} /\ s = call.store
    /\ on_called' = [on_called EXCEPT ![s] = nextHook]
    /\ nextHook' = nextHook + 1
    /\ UNCHANGED <<objects, entities, evalCount, call>>
    /\ UNCHANGED extVars

\* the pending hook taken when the call is entered
CallTakesHook(f, s, params) ==
    /\ call.pc = "idle"
    /\ LET c0 == [Idle EXCEPT !.func = f, !.store = s, !.params = params]
       IN IF ~StoreHandleGetOk(f, objects[s])
          THEN call' = [c0 EXCEPT !.pc = "done", !.params = << >>,
                                  !.outcome = [kind |-> "wrong_context", err |-> ErrWrongContext]]
          ELSE LET results == [i \in 1..Len(FunctionTy(f, objects[s]).results) |-> ValueNull]
                   m == CallWasm(objects[s], f, params, results)
               IN IF m.err # NoError
                  THEN call' = [c0 EXCEPT !.pc = "done", !.results = results,
                                          !.outcome = [kind |-> "err", err |-> m.err]]
                  ELSE call' = [c0 EXCEPT !.pc = "in_native", !.results = results,
                                          !.buf = m.buf, !.bufAtCall = m.buf,
                                          !.invocations = 1]
    /\ on_called' = [on_called EXCEPT ![s] = 0]
    /\ UNCHANGED <<objects, entities, nextHook, evalCount>>
    /\ UNCHANGED extVars

\* Function::call of f on store s with params: the trampoline is looked up,
\* the result vector made, call_wasm checks and marshals, and call_wasm_raw
\* enters the trampoline for the first time.
Call(f, s, params) ==
    /\ call.pc = "idle"
    /\ LET c0 == [Idle EXCEPT !.func = f, !.store = s, !.params = params]
       IN IF ~StoreHandleGetOk(f, objects[s])
          THEN call' = [c0 EXCEPT !.pc = "done", !.params = << >>,
                                  !.outcome = [kind |-> "wrong_context", err |-> ErrWrongContext]]
          ELSE LET results == [i \in 1..Len(FunctionTy(f, objects[s]).results) |-> ValueNull]
                   m == CallWasm(objects[s], f, params, results)
               IN IF m.err # NoError
                  THEN call' = [c0 EXCEPT !.pc = "done", !.results = results,
                                          !.outcome = [kind |-> "err", err |-> m.err]]
                  ELSE call' = [c0 EXCEPT !.pc = "in_native", !.results = results,
                                          !.buf = m.buf, !.bufAtCall = m.buf,
                                          !.invocations = 1]
    /\ UNCHANGED <<objects, on_called, entities, nextHook, evalCount>>
    /\ UNCHANGED extVars

\* The native invocation returns: the host closure answered ret, the wrapper
\* checked and wrote the results, func_wrapper acted on the wrapper's result and
\* the trampoline returned r; then the loop of call_wasm_raw takes the pending
\* hook and calls it, or leaves the loop.
NativeReturn(ret) ==
    /\ call.pc = "in_native"
    /\ LET s == call.store
           sig == FunctionTy(call.func, objects[s])
           w == IF ret.kind = "panic" THEN [r |-> ROk, buf |-> call.buf]
                ELSE DynamicWrapper(sig, call.buf, ret)
           fw == FuncWrapper(CatchUnwind(ret, w.r))
       IN IF fw.do = "resume_panic"
          THEN /\ call' = [call EXCEPT !.pc = "done", !.lastRet = ret,
                                       !.outcome = [kind |-> "panic", err |-> NoError]]
               /\ UNCHANGED <<on_called, evalCount>>
          ELSE LET h == on_called[s]
                   first == ~fw.r.ok /\ call.trapAt = 0
                   c1 == [call EXCEPT !.buf = w.buf, !.bufLeft = w.buf,
                                      !.r = fw.r, !.lastRet = ret,
                                      !.trapAt = IF first THEN call.invocations ELSE @,
                                      !.trapErr = IF first THEN fw.r.err ELSE @,
                                      !.trapHook = IF first THEN h # 0 ELSE @]
               IN IF h # 0
                  THEN /\ on_called' = [on_called EXCEPT ![s] = TakeLeaves(h)]
                       /\ evalCount' = [evalCount EXCEPT ![h] = @ + 1]
                       /\ call' = [c1 EXCEPT !.pc = "in_hook", !.running = h,
                                             !.slotAtEval = on_called'[s]]
                  ELSE /\ call' = FinishCall(c1, objects[s])
                       /\ UNCHANGED <<on_called, evalCount>>
    /\ UNCHANGED <<objects, entities, nextHook>>
    /\ UNCHANGED extVars

\* The hook returns out: the loop invokes again, leaves the loop, or returns
\* the hook's error.
HookReturn(out) ==
    /\ call.pc = "in_hook"
    /\ LET c1 == [call EXCEPT !.hooks = Append(@, out), !.running = 0]
           todo == HookAction(out)
       IN call' =
            CASE todo = "continue" ->
                    [c1 EXCEPT !.pc = "in_native", !.invocations = @ + 1,
                               !.buf = InvokeAgainParams(call, objects[call.store]),
                               !.bufAtCall = InvokeAgainParams(call, objects[call.store]),
                               !.r = Idle.r, !.lastRet = NoReturn]
              [] todo = "break" -> FinishCall(c1, objects[call.store])
              [] todo = "return" ->
                    [c1 EXCEPT !.pc = "done",
                               !.outcome = [kind |-> "err", err |-> RuntimeErrorUser(out.e)]]
    /\ UNCHANGED <<objects, on_called, entities, nextHook, evalCount>>
    /\ UNCHANGED extVars

\* Function::call has returned to the embedder
Return ==
    /\ call.pc = "done"
    /\ call' = Idle
    /\ UNCHANGED <<objects, on_called, entities, nextHook, evalCount>>
    /\ UNCHANGED extVars

Next ==
    \/ \E s \in Stores, ty \in Signatures : NewWithEnv(s, ty)
    \/ \E s \in Stores : ExternRefNew(s)
    \/ \E s \in Stores : OnCalled(s)
    \/ \E e \in {x \in entities : x.type = "func"}, s \in Stores,
          params \in SeqsUpTo(ArgValues, MaxLen) : Call(e.handle, s, params)
    \/ \E ret \in ClosureOutcomes : NativeReturn(ret)
    \/ \E out \in HookOutcomes : HookReturn(out)
    \/ Return

Spec == Init /\ [][Next]_vars

\* ------------------------------------------------------------ properties

InCall == call.pc # "idle"
Done == call.pc = "done"
\* the callee's handle was made by the store of the call
CalleeOk == InCall /\ call.func.store_id = objects[call.store].id
CallSig == objects[call.store].functions[call.func.idx].signature
Invoked == Done /\ call.invocations >= 1 /\ call.outcome.kind # "panic"
LastHook == call.hooks[Len(call.hooks)]
\* the loop was left by break: no hook was pending, or the hook said Finish
LeftByBreak == Len(call.hooks) = 0 \/ LastHook.act = "Finish"
NullResults == [i \in 1..Len(CallSig.results) |-> NullRef("FuncRef")]
\* the value is a reference made by another store than s
ForeignTo(v, s) ==
    /\ v.ty \in {"ExternRef", "FuncRef"}
    /\ \E e \in entities :
          /\ e.type = (IF v.ty = "ExternRef" THEN "extern" ELSE "func")
          /\ e.handle = [store_id |-> v.a, idx |-> v.b]
          /\ e.origin # s
AgainThenFinish(h) ==
    /\ Len(h) >= 1
    /\ h[Len(h)].act = "Finish"
    /\ \A i \in 1..(Len(h) - 1) : h[i].act = "InvokeAgain"

\* C1: when the hooks evaluated by a call answered InvokeAgain N times and
\* then Finish, the trampoline was invoked exactly N+1 times; no result slot
\* is read while the loop runs, and after a successful last invocation every
\* result is read once the loop is left.
C1_ResumptionCount ==
    /\ (Done /\ AgainThenFinish(call.hooks)) =>
          /\ call.invocations = Len(call.hooks)
          /\ call.r.ok => (call.outcome.kind = "ok" /\ call.reads = Len(CallSig.results))
    /\ call.pc \in {"in_native", "in_hook"} => call.reads = 0

C1_Witness ==
    /\ Done /\ Len(call.hooks) = 2 /\ AgainThenFinish(call.hooks)
    /\ call.invocations = 2 /\ call.outcome.kind = "ok" /\ call.reads >= 1

\* C2: when the hook consulted after the first invocation answers Trap(e),
\* the call returns e as a user error, the trampoline was invoked once and no
\* result slot was read.
C2_TrapOnFirst ==
    (Done /\ Len(call.hooks) >= 1 /\ call.hooks[1].act = "Trap") =>
        /\ call.outcome = [kind |-> "err", err |-> [kind |-> "user", what |-> call.hooks[1].e]]
        /\ call.invocations = 1
        /\ call.reads = 0
        /\ call.results = NullResults

C2_Witness ==
    /\ Done /\ call.hooks = <<[act |-> "Trap", e |-> "e2"]>>
    /\ call.r.ok /\ call.outcome.err.what = "e2"

\* C3: the hook is one-shot: when the loop calls a hook the store's slot has
\* been emptied and never holds the running hook, no hook is called twice,
\* and a hook that is pending has never been called (so a hook taken by a
\* call is not pending when the call returns).
C3_OneShot ==
    /\ call.pc = "in_hook" =>
          /\ call.slotAtEval = 0
          /\ on_called[call.store] # call.running
          /\ evalCount[call.running] = 1
    /\ \A h \in 1..MaxHooks : evalCount[h] <= 1
    /\ \A s \in Stores : on_called[s] # 0 => evalCount[on_called[s]] = 0

C3_Witness ==
    /\ Done /\ Len(call.hooks) >= 1 /\ on_called[call.store] = 0
    /\ \E h \in 1..MaxHooks : evalCount[h] = 1

\* C4: a call whose argument count differs from the parameter count, or with
\* an argument of another kind than its parameter, returns an error without
\* any native invocation.
C4_RejectedUpFront ==
    (CalleeOk /\
        \/ Len(call.params) # Len(CallSig.params)
        \/ \E i \in 1..Len(call.params) :
              i <= Len(CallSig.params) /\ call.params[i].ty # CallSig.params[i])
    => (Done /\ call.outcome.kind = "err" /\ call.invocations = 0 /\ call.reads = 0)

C4_Witness ==
    /\ CalleeOk /\ Done
    /\ Len(call.params) = 1 /\ Len(CallSig.params) = 2
    /\ call.outcome.kind = "err"

\* C5: a call on store S whose argument list has the declared length and
\* holds, at any position, a reference made by another store returns an error
\* without any native invocation.
C5_ForeignArgument ==
    (CalleeOk /\ Len(call.params) = Len(CallSig.params) /\
        \E i \in 1..Len(call.params) : ForeignTo(call.params[i], call.store))
    => (Done /\ call.outcome.kind = "err" /\ call.invocations = 0)

C5_Witness ==
    /\ CalleeOk /\ Done /\ Len(call.params) = 2
    /\ ~ForeignTo(call.params[1], call.store)
    /\ ForeignTo(call.params[2], call.store)
    /\ call.outcome.err = ErrCrossStore

\* the closure's last return matches the declared results in length and kinds
LastReturnMatches ==
    call.lastRet.kind = "ok" /\ TypesOf(call.lastRet.vals) = CallSig.results

C7_NoPartialWrite ==
    (call.pc \in {"in_hook", "done"} /\ call.lastRet.kind = "ok"
        /\ TypesOf(call.lastRet.vals) # CallSig.results)
    => /\ call.buf = call.bufAtCall
       /\ call.r = [ok |-> FALSE, err |-> ErrWrongSignature]
       /\ Done => (call.outcome.kind = "err" /\ call.reads = 0 /\ call.results = NullResults)

C7_Witness ==
    /\ Done /\ call.lastRet.kind = "ok" /\ Len(call.lastRet.vals) = 2
    /\ Len(CallSig.results) = 2 /\ TypesOf(call.lastRet.vals) # CallSig.results
    /\ call.outcome.err = ErrWrongSignature

\* C8: when the last native invocation returned an error, no result slot is
\* read and the call returns an error; when the loop was left by break (no
\* hook pending, or Finish) that error is the invocation's.
C8_UnmarshalSkipped ==
    /\ (Invoked /\ ~call.r.ok) =>
          /\ call.reads = 0
          /\ call.results = NullResults
          /\ call.outcome.kind = "err"
          /\ LeftByBreak => call.outcome.err = call.r.err
    /\ call.reads > 0 => (Done /\ call.r.ok)

C8_Witness ==
    /\ Invoked /\ ~call.r.ok /\ Len(call.hooks) = 1 /\ LastHook.act = "Finish"
    /\ call.outcome.err = call.r.err

\* C9 as stated: after an invocation returned an error the native function is
\* not invoked again within the call, and the call returns that error.
C9_TrapAborts ==
    call.trapAt # 0 =>
        /\ call.invocations = call.trapAt
        /\ (Done /\ call.outcome.kind # "panic") =>
              call.outcome = [kind |-> "err", err |-> call.trapErr]

\* C9 amended: after an invocation returned an error with no hook pending the
\* call is over, with that error and no further invocation; a later
\* invocation happens only when the hook consulted after the failing one
\* answered InvokeAgain; and a call that ends with that invocation returns its
\* error when the loop was left by break.
C9_TrapAbortsUnlessHook ==
    call.trapAt # 0 =>
        /\ ~call.trapHook =>
              /\ Done /\ call.invocations = call.trapAt
              /\ call.outcome = [kind |-> "err", err |-> call.trapErr]
        /\ call.invocations > call.trapAt =>
              /\ call.trapHook /\ Len(call.hooks) >= call.trapAt
              /\ call.hooks[call.trapAt].act = "InvokeAgain"
        /\ (Invoked /\ call.invocations = call.trapAt /\ LeftByBreak) =>
              call.outcome = [kind |-> "err", err |-> call.trapErr]

C9_Witness ==
    /\ Done /\ call.trapAt = 1 /\ ~call.trapHook
    /\ call.outcome = [kind |-> "err", err |-> HostError]

Answered == InCall /\ call.lastRet.kind # "none"

\* C16: at func_wrapper the three answers of the closure stay apart. A list
\* whose kinds match resumes the guest with Ok; an error is the trampoline's
\* error and, once the call is over, the call returns an error; a panic ends
\* the call as a panic at once, with no trampoline error and no hook run; and
\* no call ends as a panic unless the closure panicked.
C16_OutcomesDistinct ==
    /\ call.outcome.kind = "panic" => Answered /\ call.lastRet.kind = "panic"
    /\ Answered =>
        /\ call.lastRet.kind = "panic" =>
              /\ Done /\ call.outcome.kind = "panic"
              /\ call.r = Idle.r /\ call.running = 0
        /\ call.lastRet.kind = "err" =>
              /\ call.r = RErr(call.lastRet.err)
              /\ call.trapAt # 0
              /\ Done => call.outcome.kind = "err"
              /\ (Done /\ LeftByBreak) => call.outcome.err = call.lastRet.err
        /\ (call.lastRet.kind = "ok" /\ ReturnTypesMatch(call.lastRet.vals, CallSig)) =>
              /\ call.r = ROk
              /\ (Done /\ LeftByBreak) => call.outcome.kind = "ok"

\* a second invocation of the closure panicked after the first returned an
\* error and the hook asked to invoke again
C16_Witness ==
    /\ Done /\ call.lastRet.kind = "panic" /\ call.outcome.kind = "panic"
    /\ call.invocations = 2
    /\ Len(call.hooks) = 1

\* the closure returned an error, no hook was pending, the call returned it
C16_WitnessError ==
    /\ Done /\ call.lastRet.kind = "err" /\ Len(call.hooks) = 0
    /\ call.outcome = [kind |-> "err", err |-> HostError]

\* ================================================================ SpecEntity
\* Entities of the sys backend and their conversions through the native form,
\* with the constructors of the public Function type.

\* the signature of a typed host function: (i32, i32) -> (i32)
BinarySig == Sig(<<"I32", "I32">>, <<"I32">>)
NoSig == Sig(<< >>, << >>)

\* Function::to_vm_extern: the internal handle, without the store id
FunctionToVmExtern(f) == f.idx

\* Function::from_vm_extern: the internal handle tagged with the id of the
\* store it is presented to
FunctionFromVmExtern(objs, vm_extern) ==
    [store_id |-> StoreObjectsId(objs), idx |-> vm_extern]

\* Function::vm_funcref: refused for a dynamic function
FunctionVmFuncref(f, objs) ==
    IF objs.functions[f.idx].kind = "Dynamic"
    THEN [outcome |-> "panic",
          cause |-> "dynamic functions cannot be used in tables or as funcrefs"]
    ELSE [outcome |-> "ok", cause |-> "none"]

\* the constructors of the public Function type (new, new_with_env, new_typed,
\* new_typed_with_env): the embedder is read, and every path ends in todo!()
WasmFunctionConstructors == {"new", "new_with_env", "new_typed", "new_typed_with_env"}
WasmFunctionNew(ctor, embedder) ==
    IF embedder = "sys"
    THEN [outcome |-> "panic", cause |-> "not yet implemented"]
    ELSE [outcome |-> "panic", cause |-> "not yet implemented"]

\* the argument and result lists a caller of typed asks for
TypedAsked ==
    Signatures \cup {BinarySig, Sig(<<"I32", "I32">>, <<"I64">>), Sig(<<"I32">>, <<"I32">>)}

\* the result kinds compared before the parameter kinds
WasmFunctionTypedResultsFirst(ty, args, rets) ==
    IF ty.results # rets
    THEN [outcome |-> "err", cause |-> "given types for the function results don't match"]
    ELSE IF ty.params # args
    THEN [outcome |-> "err", cause |-> "given types for the function arguments don't match"]
    ELSE [outcome |-> "ok", cause |-> "none"]

\* Function::typed of the public Function type: the declared parameter and
\* result kinds compared with the given ones
WasmFunctionTyped(ty, args, rets) ==
    IF ty.params # args
    THEN [outcome |-> "err", cause |-> "given types for the function arguments don't match"]
    ELSE IF ty.results # rets
    THEN [outcome |-> "err", cause |-> "given types for the function results don't match"]
    ELSE [outcome |-> "ok", cause |-> "none"]

\* the record of an operation on an entity
EntityOp(op, s, type, h, origin, ty, res) ==
    [op |-> op, store |-> s, type |-> type, handle |-> h, origin |-> origin,
     ty |-> ty, outcome |-> res.outcome, cause |-> res.cause]
OkRes == [outcome |-> "ok", cause |-> "none"]
WrongContextRes == [outcome |-> "wrong_context", cause |-> ErrWrongContext.what]

ConversionOps == {"from_vm_extern", "from_vm_externref"}

\* the entities a conversion can start from: the constructed ones and the one
\* the last conversion returned
Convertible ==
    entities \cup
        (IF last.op \in ConversionOps
         THEN {[origin |-> last.origin, type |-> last.type, handle |-> last.handle]}
         ELSE {})

InitEntity ==
    /\ objects = [s \in Stores |-> NewStoreObjects(s)]
    /\ on_called = [s \in Stores |-> 0]
    /\ entities = {}
    /\ nextHook = 1
    /\ evalCount = [h \in 1..MaxHooks |-> 0]
    /\ call = Idle
    /\ InitExt

\* Function::new_typed on store s: a static function of signature ty
NewTyped(s, ty) ==
    /\ Cardinality(entities) < MaxObjects
    /\ LET vm_function == [kind |-> "Static", signature |-> ty]
           new == StoreHandleNewFunction(objects[s], vm_function)
       IN /\ objects' = [objects EXCEPT ![s] = new.objs]
          /\ entities' = entities \cup {[origin |-> s, type |-> "func", handle |-> new.handle]}
    /\ UNCHANGED <<on_called, nextHook, evalCount, call>>
    /\ UNCHANGED extVars

\* Function::from_vm_extern(store s, e.to_vm_extern())
ThroughVmExtern(e, s) ==
    /\ e.type = "func"
    /\ last' = EntityOp("from_vm_extern", s, "func",
                        FunctionFromVmExtern(objects[s], FunctionToVmExtern(e.handle)),
                        e.origin, NoSig, OkRes)
    /\ UNCHANGED <<bridgeVars, globals, backend, held>>

\* ExternRef::from_vm_externref(store s, e.vm_externref())
ThroughVmExternref(e, s) ==
    /\ e.type = "extern"
    /\ last' = EntityOp("from_vm_externref", s, "extern",
                        FromVmExternref(objects[s], VmExternref(e.handle)),
                        e.origin, NoSig, OkRes)
    /\ UNCHANGED <<bridgeVars, globals, backend, held>>

\* a constructor of the public Function type called on store s
WasmFunctionConstruct(ctor, s, ty) ==
    /\ last' = EntityOp(ctor, s, "func", NullHandle, s, ty,
                        WasmFunctionNew(ctor, backend[s]))
    /\ UNCHANGED <<bridgeVars, globals, backend, held>>

\* Function::vm_funcref of e on store s
VmFuncref(e, s) ==
    /\ e.type = "func"
    /\ last' = EntityOp("vm_funcref", s, "func", e.handle, e.origin, NoSig,
                        IF StoreHandleGetOk(e.handle, objects[s])
                        THEN FunctionVmFuncref(e.handle, objects[s])
                        ELSE WrongContextRes)
    /\ UNCHANGED <<bridgeVars, globals, backend, held>>

\* Function::typed::<Args, Rets> of e on store s
Typed(e, s, asked) ==
    /\ e.type = "func"
    /\ last' = EntityOp("typed", s, "func", e.handle, e.origin, asked,
                        IF StoreHandleGetOk(e.handle, objects[s])
                        THEN WasmFunctionTyped(FunctionTy(e.handle, objects[s]),
                                               asked.params, asked.results)
                        ELSE WrongContextRes)
    /\ UNCHANGED <<bridgeVars, globals, backend, held>>

\* the types of the host values boxed, and the values
HostTypes == {"u32", "String"}
HostValues == {1, 2}

\* ExternRef::new::<T>(store s, value)
ExternRefNewOf(s, T, value) ==
    /\ Cardinality(entities) < MaxObjects
    /\ LET new == StoreHandleNewExternObj(objects[s], VMExternObjNew(T, value))
       IN /\ objects' = [objects EXCEPT ![s] = new.objs]
          /\ entities' = entities \cup {[origin |-> s, type |-> "extern", handle |-> new.handle]}
    /\ UNCHANGED <<on_called, nextHook, evalCount, call>>
    /\ UNCHANGED extVars

\* ExternRef::downcast::<T> of e on store s
Downcast(e, s, T) ==
    /\ e.type = "extern"
    /\ LET r == IF StoreHandleGetOk(e.handle, objects[s])
                THEN ExternRefDowncast(e.handle, objects[s], T)
                ELSE [some |-> FALSE, val |-> 0]
       IN last' = [op |-> "downcast", store |-> s, type |-> "extern", handle |-> e.handle,
                   origin |-> e.origin, ty |-> T,
                   outcome |-> IF ~StoreHandleGetOk(e.handle, objects[s]) THEN "wrong_context"
                               ELSE IF r.some THEN "some" ELSE "none",
                   cause |-> IF StoreHandleGetOk(e.handle, objects[s]) THEN "none"
                             ELSE ErrWrongContext.what,
                   value |-> r.val]
    /\ UNCHANGED <<bridgeVars, globals, backend, held>>

NextEntity ==
    \/ \E s \in Stores, ty \in Signatures : NewWithEnv(s, ty)
    \/ \E s \in Stores : NewTyped(s, BinarySig)
    \/ \E s \in Stores : ExternRefNew(s)
    \/ \E e \in Convertible, s \in Stores : ThroughVmExtern(e, s)
    \/ \E e \in Convertible, s \in Stores : ThroughVmExternref(e, s)
    \/ \E c \in WasmFunctionConstructors, s \in Stores : WasmFunctionConstruct(c, s, BinarySig)
    \/ \E e \in entities, s \in Stores : VmFuncref(e, s)
    \/ \E e \in entities, s \in Stores, asked \in TypedAsked : Typed(e, s, asked)
    \/ \E s \in Stores, T \in HostTypes, value \in HostValues : ExternRefNewOf(s, T, value)
    \/ \E e \in entities, s \in Stores, T \in HostTypes : Downcast(e, s, T)

SpecEntity == InitEntity /\ [][NextEntity]_vars

\* the store of name s, by its objects' id
IsFromStoreOf(type, h, objs) ==
    IF type = "func" THEN FunctionIsFromStore(h, objs) ELSE ExternRefIsFromStore(h, objs)

\* C11: an entity obtained through the native form from an entity whose object
\* was produced by store A is from no other store than A: is_from_store(B) is
\* false for every other store B.
C11_IdentityKept ==
    last.op \in ConversionOps =>
        \A s \in Stores : s # last.origin => ~IsFromStoreOf(last.type, last.handle, objects[s])

\* ================================================================ SpecGlobal
\* Globals: the public Global type over the backend's global, and the raw
\* access of StoreObjects to the globals of a store.

\* the backends (RuntimeStore variants); an entity's variant has the name of
\* the backend that made it
Backends == {"sys", "wamr", "wasmi", "v8", "js", "jsc"}

\* the store whose globals are exercised
GlobalStore == "A"

ErrImmutable == RuntimeErrorNew("Attempted to set an immutable global")
ErrGlobalType == RuntimeErrorNew("Attempted to operate on a global of another type")

\* the backend's Global::from_value: the value must belong to the store; the
\* global is appended to the registry holding the value's raw form. (init
\* keeps the raw form it was created with, by the constructor used.)
BackendGlobalFromValue(gl, objs, val, mutability) ==
    IF ~ValueIsFromStore(val, objs)
    THEN [ok |-> FALSE, err |-> ErrCrossStore, globals |-> gl, idx |-> 0]
    ELSE [ok |-> TRUE, err |-> NoError,
          globals |-> Append(gl, [ty |-> val.ty, mutability |-> mutability,
                                  raw |-> ValueAsRaw(val), init |-> ValueAsRaw(val),
                                  by |-> "from_value"]),
          idx |-> Len(gl) + 1]

\* the backend's Global::get: the raw form read as the declared kind
BackendGlobalGet(gl, objs, idx) == ValueFromRaw(objs, gl[idx].ty, gl[idx].raw)

\* the backend's Global::set: refused for a Const global and for a value of
\* another kind than the global's
BackendGlobalSet(gl, objs, idx, val) ==
    IF gl[idx].mutability # "Var"
    THEN [ok |-> FALSE, err |-> ErrImmutable, globals |-> gl]
    ELSE IF val.ty # gl[idx].ty
    THEN [ok |-> FALSE, err |-> ErrGlobalType, globals |-> gl]
    ELSE [ok |-> TRUE, err |-> NoError,
          globals |-> [gl EXCEPT ![idx].raw = ValueAsRaw(val)]]

\* the backend's set_global_unchecked: the raw value stored, whatever the
\* global's kind and mutability; fails only for an index out of range
BackendSetGlobalUnchecked(gl, idx, raw) ==
    IF idx \notin DOMAIN gl
    THEN [outcome |-> "panic", globals |-> gl]
    ELSE [outcome |-> "ok", globals |-> [gl EXCEPT ![idx].raw = raw]]

\* RuntimeGlobal::from_value: the arm of the store's backend
RuntimeGlobalFromValue(bk, gl, objs, val, mutability) ==
    IF bk \in {"sys", "wamr", "v8", "js", "jsc"}
    THEN LET r == BackendGlobalFromValue(gl, objs, val, mutability)
         IN [outcome |-> IF r.ok THEN "ok" ELSE "err", err |-> r.err,
             variant |-> IF r.ok THEN bk ELSE "none", globals |-> r.globals, idx |-> r.idx]
    ELSE [outcome |-> "no_arm", err |-> NoError, variant |-> "none", globals |-> gl, idx |-> 0]

\* unwrap() of the result of from_value
Unwrap(r) == IF r.outcome = "err" THEN [r EXCEPT !.outcome = "panic"] ELSE r

\* a Var global made by Global::new
RuntimeGlobalNewAsVar(bk, gl, objs, val) ==
    Unwrap(RuntimeGlobalFromValue(bk, gl, objs, val, "Var"))

\* RuntimeGlobal::new
RuntimeGlobalNew(bk, gl, objs, val) ==
    Unwrap(RuntimeGlobalFromValue(bk, gl, objs, val, "Const"))

\* RuntimeGlobal::new_mut
RuntimeGlobalNewMut(bk, gl, objs, val) ==
    Unwrap(RuntimeGlobalFromValue(bk, gl, objs, val, "Var"))

\* RuntimeGlobal::get: the backend's get of the entity's variant
RuntimeGlobalGet(gl, objs, idx) == BackendGlobalGet(gl, objs, idx)

\* Ok returned without the backend's set
RuntimeGlobalSetSkipsBackend(gl, objs, idx, val) ==
    [ok |-> TRUE, err |-> NoError, globals |-> gl]

\* RuntimeGlobal::set: the backend's set of the entity's variant
RuntimeGlobalSet(gl, objs, idx, val) == BackendGlobalSet(gl, objs, idx, val)

\* StoreObjects::as_u128_globals
StoreObjectsAsU128Globals(gl) == [i \in DOMAIN gl |-> gl[i].raw]

\* the raw value stored in the first global
StoreObjectsSetFirstGlobal(gl, idx, raw) ==
    BackendSetGlobalUnchecked(gl, IF idx \in DOMAIN gl THEN 1 ELSE idx, raw)

\* StoreObjects::set_global_unchecked
StoreObjectsSetGlobalUnchecked(gl, idx, raw) == BackendSetGlobalUnchecked(gl, idx, raw)

\* the values globals are created with and set to
GlobalValues == {I32(5), I32(7), I64(0, 1)}
\* the raw value written by set_global_unchecked
RawPokes == {Raw(9, 1)}

\* the record of an operation on a global
GlobalOp(op, idx, val, raw, before, outcome, err) ==
    [op |-> op, idx |-> idx, val |-> val, raw |-> raw, before |-> before,
     outcome |-> outcome, err |-> err]

GlobalFrame == UNCHANGED <<bridgeVars, backend, held>>

\* the globals of the store with the new global marked by its constructor
MarkBy(gl, by) == [gl EXCEPT ![Len(gl)].by = by]

\* Global::new(store, val)
GlobalNew(val) ==
    /\ Len(globals[GlobalStore]) < MaxObjects
    /\ LET r == RuntimeGlobalNew(backend[GlobalStore], globals[GlobalStore],
                                 objects[GlobalStore], val)
       IN /\ globals' = [globals EXCEPT ![GlobalStore] =
                            IF r.outcome = "ok" THEN MarkBy(r.globals, "new") ELSE @]
          /\ last' = GlobalOp("new", r.idx, val, RawZero, val, r.outcome, r.err)
    /\ GlobalFrame

\* Global::new_mut(store, val)
GlobalNewMut(val) ==
    /\ Len(globals[GlobalStore]) < MaxObjects
    /\ LET r == RuntimeGlobalNewMut(backend[GlobalStore], globals[GlobalStore],
                                    objects[GlobalStore], val)
       IN /\ globals' = [globals EXCEPT ![GlobalStore] =
                            IF r.outcome = "ok" THEN MarkBy(r.globals, "new_mut") ELSE @]
          /\ last' = GlobalOp("new_mut", r.idx, val, RawZero, val, r.outcome, r.err)
    /\ GlobalFrame

\* g.get(store) of the global of index idx
GlobalGet(idx) ==
    /\ idx \in DOMAIN globals[GlobalStore]
    /\ LET v == RuntimeGlobalGet(globals[GlobalStore], objects[GlobalStore], idx)
       IN last' = GlobalOp("get", idx, v, RawZero, v, "ok", NoError)
    /\ UNCHANGED globals
    /\ GlobalFrame

\* g.set(store, val) of the global of index idx
GlobalSet(idx, val) ==
    /\ idx \in DOMAIN globals[GlobalStore]
    /\ LET before == RuntimeGlobalGet(globals[GlobalStore], objects[GlobalStore], idx)
           r == RuntimeGlobalSet(globals[GlobalStore], objects[GlobalStore], idx, val)
       IN /\ globals' = [globals EXCEPT ![GlobalStore] = r.globals]
          /\ last' = GlobalOp("set", idx, val, RawZero, before,
                              IF r.ok THEN "ok" ELSE "err", r.err)
    /\ GlobalFrame

\* store.objects().set_global_unchecked(idx, raw); what get returned before is
\* kept, read from as_u128_globals
SetGlobalUnchecked(idx, raw) ==
    /\ LET gl == globals[GlobalStore]
           before == IF idx \in DOMAIN gl
                     THEN ValueFromRaw(objects[GlobalStore], gl[idx].ty,
                                       StoreObjectsAsU128Globals(gl)[idx])
                     ELSE I32(0)
           r == StoreObjectsSetGlobalUnchecked(gl, idx, raw)
       IN /\ globals' = [globals EXCEPT ![GlobalStore] = r.globals]
          /\ last' = GlobalOp("set_global_unchecked", idx, I32(0), raw, before,
                              r.outcome, NoError)
    /\ GlobalFrame

InitGlobal == InitEntity

NextGlobal ==
    \/ \E val \in GlobalValues : GlobalNew(val)
    \/ \E val \in GlobalValues : GlobalNewMut(val)
    \/ \E idx \in 1..MaxObjects : GlobalGet(idx)
    \/ \E idx \in 1..MaxObjects, val \in GlobalValues : GlobalSet(idx, val)
    \/ \E idx \in 1..(Len(globals[GlobalStore]) + 1), raw \in RawPokes :
          SetGlobalUnchecked(idx, raw)

SpecGlobal == InitGlobal /\ [][NextGlobal]_vars

\* the global the last operation was about, and what get returns for it now
LastGlobal == globals[GlobalStore][last.idx]
GetNow(idx) == RuntimeGlobalGet(globals[GlobalStore], objects[GlobalStore], idx)

\* C12: after set(g, v) on a global made by Global::new, whatever v, the set
\* returned an error and get(g) returns what it returned before the set.
C12_ConstSetFails ==
    (last.op = "set" /\ LastGlobal.by = "new") =>
        /\ last.outcome = "err"
        /\ GetNow(last.idx) = last.before

C12_Witness ==
    /\ last.op = "set" /\ LastGlobal.by = "new" /\ last.val.ty = LastGlobal.ty
    /\ last.val # last.before /\ last.err = ErrImmutable

\* C13: after set(g, v) on a global made by Global::new_mut: when v is of the
\* global's kind the set succeeded and get(g) returns v; when v is of another
\* kind the set returned the type error and get(g) returns what it returned
\* before.
C13_VarSetGet ==
    (last.op = "set" /\ LastGlobal.by = "new_mut") =>
        IF last.val.ty = LastGlobal.ty
        THEN last.outcome = "ok" /\ GetNow(last.idx) = last.val
        ELSE last.outcome = "err" /\ last.err = ErrGlobalType
                /\ GetNow(last.idx) = last.before

\* the i32 global holding 5 after set I32(7)
C13_Witness ==
    /\ last.op = "set" /\ LastGlobal.by = "new_mut" /\ LastGlobal.init = Raw(5, 0)
    /\ last.before = I32(5) /\ last.val = I32(7) /\ GetNow(last.idx) = I32(7)

\* the i32 global refusing I64(1)
C13_WitnessTypeError ==
    /\ last.op = "set" /\ LastGlobal.by = "new_mut" /\ last.before = I32(5)
    /\ last.val = I64(0, 1) /\ last.outcome = "err" /\ GetNow(last.idx) = I32(5)

\* C14 as stated: every Const global holds the value it was created with and
\* every global holds a value of its declared kind.
C14_ConstAndKind ==
    \A i \in DOMAIN globals[GlobalStore] :
        LET g == globals[GlobalStore][i]
        IN /\ GetNow(i).ty = g.ty
           /\ g.mutability = "Const" => g.raw = g.init

\* C14 amended: every global reads as a value of its declared kind; no
\* operation changes a global's kind or mutability; every operation other
\* than set_global_unchecked leaves the Const globals as they are; and
\* set_global_unchecked(idx, val) stores val in the global of index idx,
\* Const or Var, and leaves the other globals as they are.
C14_ConstKeptUnlessUnchecked ==
    [][\A i \in DOMAIN globals[GlobalStore] :
          LET g == globals[GlobalStore][i]
              h == globals'[GlobalStore][i]
          IN /\ GetNow(i).ty = g.ty
             /\ h.ty = g.ty /\ h.mutability = g.mutability /\ h.init = g.init
             /\ (g.mutability = "Const" /\ last'.op # "set_global_unchecked")
                   => h.raw = g.raw
             /\ (last'.op = "set_global_unchecked")
                   => h.raw = (IF i = last'.idx THEN last'.raw ELSE g.raw)]_vars

C14_Witness ==
    /\ last.op = "set_global_unchecked" /\ last.outcome = "ok"
    /\ LastGlobal.mutability = "Const" /\ LastGlobal.raw = Raw(9, 1)
    /\ LastGlobal.raw # LastGlobal.init
    /\ Len(globals[GlobalStore]) = 2

\* =============================================================== SpecBackend
\* Stores of any backend; one value is held at a time: a global, an exception
\* reference, a VM value or an engine, each an enum over the backends.

\* the variants of the VM enums
VMVariants == {"sys", "wamr", "v8", "js", "jsc"}

\* a value of an enum over the backends: its variant and what it wraps
Entity(kind, variant, inner) == [kind |-> kind, variant |-> variant, inner |-> inner]

\* what a backend value wraps
Inners == {1, 2}

\* StoreObjects::from_store_ref: the registry of a store, by the store's variant
StoreObjectsFromStoreRef(store, objs) ==
    CASE store = "sys" -> [variant |-> "sys", id |-> StoreObjectsId(objs)]
      [] store = "wamr" -> [variant |-> "wamr", id |-> StoreObjectsId(objs)]
      [] store = "wasmi" -> [variant |-> "wasmi", id |-> StoreObjectsId(objs)]
      [] store = "v8" -> [variant |-> "v8", id |-> StoreObjectsId(objs)]
      [] store = "js" -> [variant |-> "js", id |-> StoreObjectsId(objs)]
      [] store = "jsc" -> [variant |-> "jsc", id |-> StoreObjectsId(objs)]

\* StoreObjects::same: the ids compared when both are of one of the variants
\* sys, wamr, v8, js, jsc; the panic of the last arm otherwise
StoreObjectsSame(a, b) ==
    IF a.variant = b.variant /\ a.variant \in {"sys", "wamr", "v8", "js", "jsc"}
    THEN [outcome |-> "ok", value |-> a.id = b.id, cause |-> "none"]
    ELSE [outcome |-> "panic", value |-> FALSE, cause |-> "IncompatibleBackend"]

\* RuntimeGlobal::to_vm_extern
RuntimeGlobalToVmExtern(g) == g.inner

\* RuntimeGlobal::from_vm_extern: the arm of the store's backend
RuntimeGlobalFromVmExtern(bk, vm_extern) ==
    IF bk \in {"sys", "wamr", "v8", "js", "jsc"}
    THEN [outcome |-> "ok", value |-> Entity("global", bk, vm_extern)]
    ELSE [outcome |-> "no_arm", value |-> NoEntity]

\* RuntimeExceptionRef::new: the arm of the store's backend
RuntimeExceptionRefNew(bk, value) ==
    CASE bk = "sys" -> Entity("exnref", "sys", value)
      [] bk = "wamr" -> Entity("exnref", "wamr", value)
      [] bk = "wasmi" -> Entity("exnref", "wasmi", value)
      [] bk = "v8" -> Entity("exnref", "v8", value)
      [] bk = "js" -> Entity("exnref", "js", value)
      [] bk = "jsc" -> Entity("exnref", "jsc", value)

\* RuntimeExceptionRef::vm_exceptionref: the VM value of the same variant; the
\* VM enum has no variant for wasmi
RuntimeExceptionRefVmExceptionref(r) ==
    IF r.variant \in VMVariants
    THEN [outcome |-> "ok", value |-> Entity("vm", r.variant, r.inner)]
    ELSE [outcome |-> "no_variant", value |-> NoEntity]

\* the wrapped value returned whatever the variant
IntoVariantUnchecked(x, v) == [outcome |-> "ok", value |-> v.inner, cause |-> "none"]

\* into_X: the wrapped value, or the panic "Not a `X` value!"
IntoVariant(x, v) ==
    IF v.variant = x THEN [outcome |-> "ok", value |-> v.inner, cause |-> "none"]
    ELSE [outcome |-> "panic", value |-> 0, cause |-> "IncompatibleBackend"]

\* as_X: a reference to the wrapped value, or the panic
AsVariant(x, v) ==
    IF v.variant = x THEN [outcome |-> "ok", value |-> v.inner, cause |-> "none"]
    ELSE [outcome |-> "panic", value |-> 0, cause |-> "IncompatibleBackend"]

\* as_X_mut: a mutable reference to the wrapped value, or the panic
AsVariantMut(x, v) ==
    IF v.variant = x THEN [outcome |-> "ok", value |-> v.inner, cause |-> "none"]
    ELSE [outcome |-> "panic", value |-> 0, cause |-> "IncompatibleBackend"]

\* From<rt::wamr::Engine> for crate::Engine
EngineFrom(value) == Entity("engine", "wamr", value)

\* Engine::is_wamr
EngineIsWamr(e) == e.variant = "wamr"

\* the conversions an enum has: the VM enums to each of their variants, the
\* engine to wamr
ConversionsOf(e) ==
    IF e.kind = "vm" THEN VMVariants
    ELSE IF e.kind = "engine" THEN {"wamr"}
    ELSE {}

\* the record of an operation: the store (and second store or variant asked
\* for), the value it was applied to, and what it gave
BackendOp(op, s, asked, before, outcome, value) ==
    [op |-> op, store |-> s, asked |-> asked, before |-> before,
     outcome |-> outcome, value |-> value]

BackendFrame == UNCHANGED <<bridgeVars, backend>>

\* Global::from_value(store, val, Const)
GlobalFromValue(s, val) ==
    /\ held = NoEntity
    /\ Len(globals[s]) < MaxObjects
    /\ LET r == RuntimeGlobalFromValue(backend[s], globals[s], objects[s], val, "Const")
           g == IF r.outcome = "ok" THEN Entity("global", r.variant, r.idx) ELSE NoEntity
       IN /\ globals' = [globals EXCEPT ![s] = r.globals]
          /\ held' = g
          /\ last' = BackendOp("from_value", s, "none", NoEntity, r.outcome, g)
    /\ BackendFrame

\* the held global through to_vm_extern and Global::from_vm_extern(store, _)
GlobalFromVmExtern(s) ==
    /\ held.kind = "global"
    /\ LET r == RuntimeGlobalFromVmExtern(backend[s], RuntimeGlobalToVmExtern(held))
       IN last' = BackendOp("from_vm_extern", s, "none", held, r.outcome, r.value)
    /\ UNCHANGED <<globals, held>>
    /\ BackendFrame

\* ExceptionRef::new(store, value)
ExceptionRefNew(s, value) ==
    /\ held = NoEntity
    /\ LET r == RuntimeExceptionRefNew(backend[s], value)
       IN /\ held' = r
          /\ last' = BackendOp("exnref_new", s, "none", NoEntity, "ok", r)
    /\ UNCHANGED globals
    /\ BackendFrame

\* vm_exceptionref of the held exception reference
VmExceptionref ==
    /\ held.kind = "exnref"
    /\ LET r == RuntimeExceptionRefVmExceptionref(held)
       IN /\ held' = IF r.outcome = "ok" THEN r.value ELSE held
          /\ last' = BackendOp("vm_exceptionref", "A", "none", held, r.outcome, r.value)
    /\ UNCHANGED globals
    /\ BackendFrame

\* StoreObjects::same of the registries of stores a and b
Same(a, b) ==
    /\ LET r == StoreObjectsSame(StoreObjectsFromStoreRef(backend[a], objects[a]),
                                 StoreObjectsFromStoreRef(backend[b], objects[b]))
       IN last' = BackendOp("same", a, b, NoEntity, r.outcome, r.value)
    /\ UNCHANGED <<globals, held>>
    /\ BackendFrame

\* crate::Engine::from of a wamr engine
EngineFromWamr(value) ==
    /\ held = NoEntity
    /\ held' = EngineFrom(value)
    /\ last' = BackendOp("from", "A", "none", NoEntity, "ok", held')
    /\ UNCHANGED globals
    /\ BackendFrame

\* the engine of store s, of the store's backend
EngineOf(s) ==
    /\ held = NoEntity
    /\ held' = Entity("engine", backend[s], 1)
    /\ last' = BackendOp("engine", s, "none", NoEntity, "ok", held')
    /\ UNCHANGED globals
    /\ BackendFrame

\* into_X of the held value, which is consumed
Into(x) ==
    /\ x \in ConversionsOf(held)
    /\ LET r == IntoVariant(x, held)
       IN last' = BackendOp("into", "A", x, held, r.outcome, r.value)
    /\ held' = NoEntity
    /\ UNCHANGED globals
    /\ BackendFrame

\* as_X of the held value
As(x) ==
    /\ x \in ConversionsOf(held)
    /\ LET r == AsVariant(x, held)
       IN last' = BackendOp("as", "A", x, held, r.outcome, r.value)
    /\ UNCHANGED <<globals, held>>
    /\ BackendFrame

\* as_X_mut of the held value; the caller writes w through the reference
AsMut(x, w) ==
    /\ x \in ConversionsOf(held)
    /\ LET r == AsVariantMut(x, held)
       IN /\ last' = BackendOp("as_mut", "A", x, held, r.outcome, r.value)
          /\ held' = IF r.outcome = "ok" THEN [held EXCEPT !.inner = w] ELSE held
    /\ UNCHANGED globals
    /\ BackendFrame

\* is_wamr of the held engine
IsWamr ==
    /\ held.kind = "engine"
    /\ last' = BackendOp("is_wamr", "A", "wamr", held, "ok", EngineIsWamr(held))
    /\ UNCHANGED <<globals, held>>
    /\ BackendFrame

\* the held value is dropped
Drop ==
    /\ held # NoEntity
    /\ held' = NoEntity
    /\ last' = NoOp
    /\ UNCHANGED globals
    /\ BackendFrame

\* stores of any backends, nothing made yet
InitBackend ==
    /\ objects = [s \in Stores |-> NewStoreObjects(s)]
    /\ on_called = [s \in Stores |-> 0]
    /\ entities = {}
    /\ nextHook = 1
    /\ evalCount = [h \in 1..MaxHooks |-> 0]
    /\ call = Idle
    /\ globals = [s \in Stores |-> << >>]
    /\ backend \in [Stores -> Backends]
    /\ held = NoEntity
    /\ last = NoOp

NextBackend ==
    \/ \E s \in Stores : GlobalFromValue(s, I32(5))
    \/ \E s \in Stores : GlobalFromVmExtern(s)
    \/ \E s \in Stores, value \in Inners : ExceptionRefNew(s, value)
    \/ VmExceptionref
    \/ \E a, b \in Stores : Same(a, b)
    \/ \E value \in Inners : EngineFromWamr(value)
    \/ \E s \in Stores : EngineOf(s)
    \/ \E x \in Backends : Into(x)
    \/ \E x \in Backends : As(x)
    \/ \E x \in Backends, w \in Inners : AsMut(x, w)
    \/ IsWamr
    \/ Drop

SpecBackend == InitBackend /\ [][NextBackend]_vars

\* C17: on a store of backend X the registry is of variant X, and
\* Global::from_value, Global::from_vm_extern and ExceptionRef::new give an
\* entity of variant X; none of them fails to dispatch.
C17_VariantOfBackend ==
    /\ \A s \in Stores :
          StoreObjectsFromStoreRef(backend[s], objects[s]).variant = backend[s]
    /\ last.op \in {"from_value", "from_vm_extern", "exnref_new"} =>
          /\ last.outcome = "ok"
          /\ last.value.variant = backend[last.store]

\* the conversions checked against the value they were applied to
ConversionsPure ==
    /\ last.op \in {"into", "as", "as_mut"} =>
          /\ last.before.variant = last.asked =>
                last.outcome = "ok" /\ last.value = last.before.inner
          /\ last.before.variant # last.asked => last.outcome = "panic"
    /\ last.op = "is_wamr" => (last.value <=> last.before.variant = "wamr")
    /\ last.op = "from" => IntoVariant("wamr", last.value).value = last.value.inner
    /\ (last.op \in {"as", "is_wamr"}) => held = last.before

\* a held value keeps its kind and its variant until it is consumed or dropped
VariantKept ==
    (held # NoEntity /\ held' # NoEntity /\ held.kind = held'.kind) =>
        held'.variant = held.variant

\* C18: the variant of a value never changes; into_X, as_X and as_X_mut give
\* the wrapped value when the variant is X and panic for any other variant,
\* a wamr engine wrapped by From unwraps to itself, and is_wamr is true
\* exactly of the Wamr variant.
C18_ConversionsPure == [](ConversionsPure) /\ [][VariantKept]_vars

\* into_wamr of an engine of the js backend panicked
C18_Witness ==
    /\ last.op = "into" /\ last.before.kind = "engine"
    /\ last.before.variant = "js" /\ last.outcome = "panic"

\* into_X of a VM value of variant X gave the value wrapped
C18_WitnessUnwrapped ==
    /\ last.op = "into" /\ last.before.kind = "vm"
    /\ last.before.variant = "v8" /\ last.asked = "v8"
    /\ last.outcome = "ok" /\ last.value = 2

\* C19: same(a, b) is true when a and b are the same store, false when they
\* are two stores of one backend, and panics only when their backends differ.
C19_SameStore ==
    last.op = "same" =>
        IF backend[last.store] = backend[last.asked]
        THEN /\ last.outcome = "ok"
             /\ last.value <=> (last.store = last.asked)
        ELSE last.outcome = "panic"

\* ------------------------------------------- SpecEntity: public operations

\* the causes of a panic the specification allows
AllowedAborts == {"IncompatibleBackend", "HostPanic"}

\* C15: an operation of an entity that fails returns an error; it panics only
\* for a backend-variant mismatch or a re-raised host panic.
C15_FailuresAreErrors ==
    (last.op # "none" /\ last.outcome = "panic") => last.cause \in AllowedAborts

\* C20: a constructor of the public Function type returns a Function of the
\* store it was given, whose ty() is the declared signature.
C20_ConstructorsUsable ==
    last.op \in WasmFunctionConstructors =>
        /\ last.outcome = "ok"
        /\ FunctionIsFromStore(last.handle, objects[last.store])
        /\ FunctionTy(last.handle, objects[last.store]) = last.ty

\* C21: typed::<Args, Rets> of a function on its store returns the typed
\* function exactly when Args is the list of its parameter kinds and Rets the
\* list of its result kinds; otherwise it returns an error, the one about the
\* arguments whenever the parameter kinds differ, the one about the results
\* when only the result kinds differ.
C21_TypedExactly ==
    (last.op = "typed" /\ FunctionIsFromStore(last.handle, objects[last.store])) =>
        LET ty == FunctionTy(last.handle, objects[last.store])
        IN /\ last.outcome \in {"ok", "err"}
           /\ last.outcome = "ok" <=>
                 (last.ty.params = ty.params /\ last.ty.results = ty.results)
           /\ last.ty.params # ty.params =>
                 last.cause = "given types for the function arguments don't match"
           /\ (last.ty.params = ty.params /\ last.ty.results # ty.results) =>
                 last.cause = "given types for the function results don't match"

\* typed was asked with other parameter kinds and other result kinds and
\* returned the error about the arguments
C21_Witness ==
    /\ last.op = "typed" /\ FunctionIsFromStore(last.handle, objects[last.store])
    /\ last.ty.params # FunctionTy(last.handle, objects[last.store]).params
    /\ last.ty.results # FunctionTy(last.handle, objects[last.store]).results
    /\ last.outcome = "err"
    /\ last.cause = "given types for the function arguments don't match"

\* typed::<(i32, i32), i64> of a function (i32, i32) -> i32 returned the error
\* about the results
C21_WitnessResults ==
    /\ last.op = "typed" /\ FunctionIsFromStore(last.handle, objects[last.store])
    /\ FunctionTy(last.handle, objects[last.store]) = BinarySig
    /\ last.ty = Sig(<<"I32", "I32">>, <<"I64">>)
    /\ last.cause = "given types for the function results don't match"

\* =============================================================== SpecMarshal
\* Dynamic functions that return their arguments, called with values of every
\* kind.

\* the all-ones pattern of a word (a 32-bit word is modelled by three bits)
WordAllOnes == 7

\* the number values marshaled: zero, all ones (-1, a NaN pattern, the
\* greatest vector) and patterns whose words differ
EdgeValues ==
    {I32(0), I32(WordAllOnes),
     I64(0, 0), I64(WordAllOnes, WordAllOnes), I64(0, WordAllOnes),
     F32(0), F32(WordAllOnes),
     F64(WordAllOnes, WordAllOnes), F64(WordAllOnes, 0),
     V128(0, 0, 0), V128(WordAllOnes, WordAllOnes, WordAllOnes), V128(WordAllOnes, 0, 1)}

\* the values marshaled: the numbers, the null references and the references
\* to the entities made so far
MarshalValues ==
    EdgeValues \cup {NullRef("ExternRef"), NullRef("FuncRef")}
        \cup Refs("extern", "ExternRef") \cup Refs("func", "FuncRef")

\* the signatures (k) -> (k) of every kind k, and one of two kinds
IdentitySigs ==
    {Sig(<<k>>, <<k>>) : k \in Types}
        \cup {Sig(<<"I64", "ExternRef">>, <<"I64", "ExternRef">>)}

\* the store the identity functions are made on
MarshalStore == "A"

\* the argument lists of the calls: one value, or an i64 and a reference
MarshalParams ==
    {<<v>> : v \in MarshalValues}
        \cup {<<I64(0, WordAllOnes), v>> : v \in Refs("extern", "ExternRef")}

\* a closure that returns its arguments: the list the wrapper read out of
\* values_vec
IdentityReturn ==
    [kind |-> "ok", err |-> NoError,
     vals |-> WrapperArgs(objects[call.store],
                          FunctionTy(call.func, objects[call.store]), call.buf)]

NextMarshal ==
    \/ \E ty \in IdentitySigs : NewWithEnv(MarshalStore, ty)
    \/ \E s \in Stores : ExternRefNew(s)
    \/ \E e \in {x \in entities : x.type = "func"}, s \in Stores,
          params \in MarshalParams : Call(e.handle, s, params)
    \/ NativeReturn(IdentityReturn)
    \/ Return

SpecMarshal == InitEntity /\ [][NextMarshal]_vars

\* the arguments of the call are of the callee's parameter kinds and belong
\* to the store of the call
ValidArguments ==
    /\ CalleeOk
    /\ TypesOf(call.params) = CallSig.params
    /\ \A i \in DOMAIN call.params : ValueIsFromStore(call.params[i], objects[call.store])

C22_WitnessV128 ==
    /\ Done /\ call.outcome.kind = "ok"
    /\ call.params = <<V128(WordAllOnes, 0, 1)>>
    /\ call.results = call.params

\* ============================================================== SpecRegistry
\* Every constructor of the sys Function and of ExternRef, and calls of the
\* dynamic functions, on two stores.

\* Function::new_typed_with_env on store s: a static function of signature ty
NewTypedWithEnv(s, ty) ==
    /\ Cardinality(entities) < MaxObjects
    /\ LET vm_function == [kind |-> "Static", signature |-> ty]
           new == StoreHandleNewFunction(objects[s], vm_function)
       IN /\ objects' = [objects EXCEPT ![s] = new.objs]
          /\ entities' = entities \cup {[origin |-> s, type |-> "func", handle |-> new.handle]}
          /\ last' = EntityOp("new_typed_with_env", s, "func", new.handle, s, ty, OkRes)
    /\ UNCHANGED <<on_called, nextHook, evalCount, call>>
    /\ UNCHANGED <<globals, backend, held>>

\* Function::from_vm_funcref on store s, of the funcref of the static function
\* e: a static function of the signature found for the funcref
FromVmFuncref(e, s) ==
    /\ Cardinality(entities) < MaxObjects
    /\ e.type = "func"
    /\ FunctionVmFuncref(e.handle, objects[e.origin]).outcome = "ok"
    /\ LET signature == FunctionTy(e.handle, objects[e.origin])
           vm_function == [kind |-> "Static", signature |-> signature]
           new == StoreHandleNewFunction(objects[s], vm_function)
       IN /\ objects' = [objects EXCEPT ![s] = new.objs]
          /\ entities' = entities \cup {[origin |-> s, type |-> "func", handle |-> new.handle]}
          /\ last' = EntityOp("from_vm_funcref", s, "func", new.handle, s, signature, OkRes)
    /\ UNCHANGED <<on_called, nextHook, evalCount, call>>
    /\ UNCHANGED <<globals, backend, held>>

\* the dynamic functions made so far
DynamicFunctions ==
    {e \in entities : e.type = "func"
        /\ objects[e.origin].functions[e.handle.idx].kind = "Dynamic"}

\* the argument lists of the calls: none, and two null references
RegistryParams == {<< >>, <<NullRef("ExternRef"), NullRef("FuncRef")>>}

\* what the closures answer: a list of the declared kinds, or an error
RegistryReturns ==
    {[kind |-> "ok", vals |-> <<I64(1, 7), NullRef("ExternRef")>>, err |-> NoError],
     [kind |-> "err", vals |-> << >>, err |-> HostError]}

NextRegistry ==
    \/ \E s \in Stores, ty \in Signatures : NewWithEnv(s, ty)
    \/ \E s \in Stores : NewTyped(s, BinarySig)
    \/ \E s \in Stores : NewTypedWithEnv(s, BinarySig)
    \/ \E e \in entities, s \in Stores : FromVmFuncref(e, s)
    \/ \E s \in Stores : ExternRefNew(s)
    \/ \E e \in DynamicFunctions, s \in Stores, params \in RegistryParams :
          Call(e.handle, s, params)
    \/ \E ret \in RegistryReturns : NativeReturn(ret)
    \/ Return

SpecRegistry == InitEntity /\ [][NextRegistry]_vars

\* s is a prefix of t
IsPrefix(s, t) == Len(s) <= Len(t) /\ \A i \in 1..Len(s) : t[i] = s[i]

\* the object behind an entity's handle, in the registry that made it
Resolve(objs, e) ==
    IF e.type = "func" THEN objs[e.origin].functions[e.handle.idx]
    ELSE objs[e.origin].extern_objs[e.handle.idx]

\* one step of the registry: the lists only grow at their end, by one object at
\* most, and every handle made so far still resolves to its object
AppendOnlyStep ==
    /\ \A s \in Stores :
          /\ objects'[s].id = objects[s].id
          /\ IsPrefix(objects[s].functions, objects'[s].functions)
          /\ IsPrefix(objects[s].extern_objs, objects'[s].extern_objs)
          /\ Len(objects'[s].functions) + Len(objects'[s].extern_objs)
                <= Len(objects[s].functions) + Len(objects[s].extern_objs) + 1
    /\ \A e \in entities : e \in entities' /\ Resolve(objects', e) = Resolve(objects, e)

\* C23: the registry of a store is append-only. The constructors
\* (new_with_env, new_typed, new_typed_with_env, from_vm_funcref,
\* ExternRef::new) only add an object at the end, no step removes or replaces
\* an object, and a handle obtained earlier resolves to the same object after
\* any later constructions and calls.
C23_AppendOnly == [][AppendOnlyStep]_vars

\* the first function of store A was called and returned after a static
\* function was added behind it
C23_Witness ==
    /\ Done /\ call.outcome.kind = "ok"
    /\ call.func = [store_id |-> MintStoreId("A"), idx |-> 1]
    /\ Len(objects["A"].functions) >= 2
    /\ objects["A"].functions[2].kind = "Static"

\* ------------------------------------------------- SpecEntity: downcast

\* the object behind the handle of the last operation
LastObject == objects[last.origin].extern_objs[last.handle.idx]

\* downcast on the store that made the reference: the stored value for the
\* type it was made with, None for another type
DowncastResult ==
    (last.op = "downcast" /\ last.store = last.origin) =>
        /\ last.outcome \in {"some", "none"}
        /\ last.outcome = "some" <=> last.ty = LastObject.tid
        /\ last.outcome = "some" => last.value = LastObject.val

\* a step that is a downcast leaves every registry as it was
DowncastReads == (last' # last /\ last'.op = "downcast") => objects' = objects

\* C24: ExternRef::downcast::<T> on the store that made the reference returns
\* the stored value when T is the type it was made with and None for every
\* other T, and does not change the stored value.
C24_Downcast == [](DowncastResult) /\ [][DowncastReads]_vars

\* a String was asked of a reference made with a u32: None
C24_Witness ==
    /\ last.op = "downcast" /\ last.store = last.origin
    /\ LastObject.tid = "u32" /\ last.ty = "String"
    /\ last.outcome = "none"

\* the value 2 was asked as the type it was made with
C24_WitnessSome ==
    /\ last.op = "downcast" /\ last.store = last.origin
    /\ last.ty = "String" /\ last.outcome = "some" /\ last.value = 2

\* ------------------------------------------------------ Spec: re-invocation

\* C25: after InvokeAgain the native function is invoked with the buffer the
\* invocation before left, results written over the argument slots included;
\* nothing is marshaled again.
C25_SameBuffer ==
    (call.pc = "in_native" /\ call.invocations >= 2) =>
        /\ call.bufAtCall = call.bufLeft
        /\ call.buf = call.bufLeft

\* the second invocation is running on a buffer whose first slot holds the
\* i64 the first invocation returned, where the argument was a reference
C25_Witness ==
    /\ call.pc = "in_native" /\ call.invocations = 2
    /\ call.params[1].ty = "ExternRef"
    /\ call.bufAtCall[1] = Raw(7, 1)
    /\ call.bufAtCall # CallWasm(objects[call.store], call.func, call.params, call.results).buf

\* =============================================================== SpecReentry
\* Calls of a dynamic function with hooks installed before and during the
\* call; every native invocation and every hook evaluation returns.

NextReentry ==
    \/ \E ty \in Signatures : NewWithEnv(MarshalStore, ty)
    \/ \E s \in Stores : OnCalled(s)
    \/ \E e \in DynamicFunctions, params \in RegistryParams :
          Call(e.handle, MarshalStore, params)
    \/ \E ret \in RegistryReturns : NativeReturn(ret)
    \/ \E out \in HookOutcomes : HookReturn(out)
    \/ Return

SpecReentry ==
    /\ InitEntity /\ [][NextReentry]_vars
    /\ WF_vars(\E ret \in RegistryReturns : NativeReturn(ret))
    /\ WF_vars(\E out \in HookOutcomes : HookReturn(out))

\* how many of the hooks the call evaluated answered InvokeAgain
InvokeAgains == Cardinality({i \in DOMAIN call.hooks : call.hooks[i].act = "InvokeAgain"})

\* the invocations of a call counted against the hooks
InvocationsBounded ==
    (InCall /\ call.invocations >= 1) =>
        /\ call.invocations = InvokeAgains + 1
        /\ call.invocations <= nextHook
        /\ nextHook = 1 => call.invocations = 1

\* a step that invokes again is the return of a hook that was pending after
\* the invocation before and answered InvokeAgain
ReinvokedByHook ==
    (call.invocations >= 1 /\ call'.invocations > call.invocations) =>
        /\ call.pc = "in_hook" /\ call.running # 0
        /\ call'.invocations = call.invocations + 1
        /\ call'.hooks = Append(call.hooks, [act |-> "InvokeAgain", e |-> "none"])

\* C26: re-entry is bounded. A call with no hook ever installed invokes the
\* native function exactly once; a call invokes once more than hooks answered
\* InvokeAgain, never more often than hooks were installed plus one; the loop
\* invokes again only when a hook was pending after an invocation and answered
\* InvokeAgain; and, native invocations and hooks returning, a call that
\* reached the trampoline returns.
C26_BoundedReentry ==
    /\ [](InvocationsBounded)
    /\ [][ReinvokedByHook]_vars
    /\ (call.pc \in {"in_native", "in_hook"}) ~> Done

\* a call returned after two invocations, the hook of the first installed
\* before the call
C26_Witness ==
    /\ Done /\ call.invocations = 2 /\ Len(call.hooks) >= 1
    /\ call.hooks[1].act = "InvokeAgain"

\* a call returned after one invocation with no hook ever installed
C26_WitnessNoHook ==
    /\ Done /\ call.invocations = 1 /\ nextHook = 1 /\ Len(call.hooks) = 0

\* ------------------------------------------------ Spec: the hook's outcome

\* C27: when the last hook a call evaluated answered Trap(e) or failed with
\* e, the call returns e as a user error whatever the native invocation
\* returned; when the loop was left by break (no hook pending, or Finish) the
\* call returns what the most recent native invocation returned: its error,
\* or success with the results loaded from the buffer it left.
C27_HookPrecedence ==
    /\ (Done /\ Len(call.hooks) >= 1 /\ LastHook.act \in {"Trap", "Err"}) =>
          /\ call.outcome = [kind |-> "err", err |-> RuntimeErrorUser(LastHook.e)]
          /\ call.reads = 0
    /\ (Invoked /\ LeftByBreak) =>
          IF call.r.ok
          THEN /\ call.outcome = [kind |-> "ok", err |-> NoError]
               /\ call.results = LoadResults(objects[call.store], CallSig, call.bufLeft)
          ELSE call.outcome = [kind |-> "err", err |-> call.r.err]

\* a hook failed with e1 after the native invocation failed with another
\* error, and the call returned e1
C27_Witness ==
    /\ Done /\ Len(call.hooks) = 1 /\ LastHook = [act |-> "Err", e |-> "e1"]
    /\ ~call.r.ok /\ call.r.err = HostError
    /\ call.outcome.err = RuntimeErrorUser("e1")

\* a hook answered Trap(e2) after the native invocation succeeded
C27_WitnessTrapOverOk ==
    /\ Done /\ Len(call.hooks) >= 1 /\ LastHook = [act |-> "Trap", e |-> "e2"]
    /\ call.r.ok /\ call.lastRet.kind = "ok"
    /\ call.outcome.err = RuntimeErrorUser("e2")

\* a hook answered Finish after the native invocation failed, and the call
\* returned the invocation's error
C27_WitnessFinish ==
    /\ Invoked /\ Len(call.hooks) >= 1 /\ LastHook.act = "Finish"
    /\ ~call.r.ok /\ call.outcome.err = call.r.err

\* ------------------------------------------------ Spec: rejected calls

\* a call that returns without reaching the trampoline changes nothing but
\* the call itself
RejectedLeavesStore ==
    (call.pc = "idle" /\ call'.pc = "done") =>
        /\ call'.invocations = 0 /\ call'.reads = 0
        /\ objects' = objects /\ entities' = entities
        /\ on_called' = on_called /\ evalCount' = evalCount

\* a pending hook leaves the slot only when a new hook is installed over it
\* or when the loop of a call on its store takes it after a native invocation
HookLeavesByInvoke ==
    \A s \in Stores :
        (on_called[s] # 0 /\ on_called'[s] # on_called[s]) =>
            \/ on_called'[s] = nextHook /\ nextHook' = nextHook + 1
            \/ /\ call.pc = "in_native" /\ call.store = s /\ call.invocations >= 1
               /\ call'.pc = "in_hook" /\ call'.running = on_called[s]

\* C28: a call rejected before the trampoline is entered leaves the store as
\* it was: no object is allocated, the native function is not invoked, and a
\* pending hook stays pending; the hook is taken by a call that has invoked
\* the native function.
C28_RejectedCallKeepsStore ==
    /\ []((Done /\ call.outcome.err \in {ErrParams, ErrResults, ErrCrossStore})
            => (call.invocations = 0 /\ call.reads = 0 /\ Len(call.hooks) = 0))
    /\ [][RejectedLeavesStore]_vars
    /\ [][HookLeavesByInvoke]_vars

\* a call was rejected for its arguments while a hook was pending in its store
C28_Witness ==
    /\ Done /\ CalleeOk /\ call.invocations = 0 /\ call.outcome.kind = "err"
    /\ call.outcome.err \in {ErrParams, ErrCrossStore}
    /\ on_called[call.store] # 0 /\ evalCount[on_called[call.store]] = 0

\* the only hook installed is run after the first invocation of a call
C28_WitnessConsumed ==
    /\ call.pc = "in_hook" /\ call.running = 1 /\ nextHook = 2
    /\ call.invocations = 1

\* =================================================================== SpecRaw
\* Function::call and Function::call_raw on the functions of one store.

\* the signatures of the host functions: two parameters and two results, one
\* parameter and two results
RawSigs == Signatures \cup {Sig(<<"ExternRef">>, <<"I64", "ExternRef">>)}

\* the argument lists of the calls through Function::call
RawParams == RegistryParams \cup {<<NullRef("ExternRef")>>}

\* the vectors the caller of call_raw passes
RawBuffers == SeqsUpTo({RawZero, Raw(1, 1)}, MaxLen)

\* the slots the wrapper of a dynamic function reads its arguments from
WrapperReadSlots(sig) == 1..Len(sig.params)

\* the slots the wrapper writes when the closure answered ret
WrapperWriteSlots(sig, ret) ==
    IF ret.kind = "ok" /\ ReturnTypesMatch(ret.vals, sig) THEN 1..Len(ret.vals) ELSE {}

\* the slots call_wasm_raw loads the results from
UnmarshalSlots(sig) == 1..Len(sig.results)

\* Function::call_raw of f on store s with the vector raw: the trampoline is
\* looked up, the result vector made, and call_wasm_raw enters the trampoline
\* with the vector as it is
CallRaw(f, s, raw) ==
    /\ call.pc = "idle"
    /\ LET c0 == [Idle EXCEPT !.func = f, !.store = s]
       IN IF ~StoreHandleGetOk(f, objects[s])
          THEN call' = [c0 EXCEPT !.pc = "done",
                                  !.outcome = [kind |-> "wrong_context", err |-> ErrWrongContext]]
          ELSE LET results == [i \in 1..Len(FunctionTy(f, objects[s]).results) |-> ValueNull]
               IN call' = [c0 EXCEPT !.pc = "in_native", !.results = results,
                                     !.buf = raw, !.bufAtCall = raw,
                                     !.invocations = 1]
    /\ UNCHANGED <<objects, on_called, entities, nextHook, evalCount>>
    /\ UNCHANGED extVars

\* The wrapper reads or writes past the end of the vector: the access is
\* undefined, and besides going on (NativeReturn, the writes past the end
\* lost) the process may be stopped by a memory fault.
NativeFault(ret) ==
    /\ call.pc = "in_native"
    /\ LET sig == FunctionTy(call.func, objects[call.store])
       IN ~(WrapperReadSlots(sig) \cup WrapperWriteSlots(sig, ret) \subseteq DOMAIN call.buf)
    /\ call' = [call EXCEPT !.pc = "fault", !.lastRet = ret]
    /\ UNCHANGED <<objects, on_called, entities, nextHook, evalCount>>
    /\ UNCHANGED extVars

NextRaw ==
    \/ \E ty \in RawSigs : NewWithEnv(MarshalStore, ty)
    \/ \E s \in Stores : OnCalled(s)
    \/ \E e \in DynamicFunctions, params \in RawParams :
          Call(e.handle, MarshalStore, params)
    \/ \E e \in DynamicFunctions, raw \in RawBuffers :
          CallRaw(e.handle, MarshalStore, raw)
    \/ \E ret \in RegistryReturns : NativeReturn(ret)
    \/ \E ret \in RegistryReturns : NativeFault(ret)
    \/ \E out \in HookOutcomes : HookReturn(out)
    \/ Return

SpecRaw == InitEntity /\ [][NextRaw]_vars

\* the slots the call has touched or will touch before it returns
SlotsOfCall ==
    WrapperReadSlots(CallSig) \cup WrapperWriteSlots(CallSig, call.lastRet)
        \cup (IF Done /\ call.outcome.kind \in {"ok", "index_panic"}
              THEN UnmarshalSlots(CallSig) ELSE {})

\* C29: once a call has entered the trampoline, through call or through
\* call_raw, the buffer has at least max(parameter count, result count)
\* slots, and the wrapper's argument reads, its result writes and the result
\* loads after the loop stay inside the buffer.
C29_BufferHolds ==
    call.invocations >= 1 =>
        /\ Len(call.buf) >= Max(Len(CallSig.params), Len(CallSig.results))
        /\ SlotsOfCall \subseteq DOMAIN call.buf
        /\ call.pc # "fault" /\ call.outcome.kind # "index_panic"

\* ================================================================ SpecNested
\* A host function running inside a call installs hooks and calls a function
\* of the same store; the frame of the outer call waits in held while the
\* nested call runs.

\* the frame of the outer call, with the store's hook slot and the next hook
\* number when the nested call began
Suspended(c, slot, next) ==
    [kind |-> "frame", variant |-> "sys", inner |-> 0,
     frame |-> c, slot |-> slot, hooksBefore |-> next]

Nested == held # NoEntity

\* Store::on_called from the host function of the running invocation
HostOnCalled(s) ==
    /\ call.pc = "in_native"
    /\ OnCalled(s)

\* Function::call by the embedder
TopCall(f, s, params) ==
    /\ ~Nested
    /\ Call(f, s, params)

\* Function::call of f by the host function of the running invocation, on the
\* store of the call: call_wasm checks and marshals and call_wasm_raw enters
\* the trampoline, as for any call
NestedCall(f, params) ==
    /\ call.pc = "in_native" /\ ~Nested
    /\ LET s == call.store
           c0 == [Idle EXCEPT !.func = f, !.store = s, !.params = params]
           results == [i \in 1..Len(FunctionTy(f, objects[s]).results) |-> ValueNull]
           m == CallWasm(objects[s], f, params, results)
       IN /\ StoreHandleGetOk(f, objects[s])
          /\ call' = IF m.err # NoError
                     THEN [c0 EXCEPT !.pc = "done", !.results = results,
                                     !.outcome = [kind |-> "err", err |-> m.err]]
                     ELSE [c0 EXCEPT !.pc = "in_native", !.results = results,
                                     !.buf = m.buf, !.bufAtCall = m.buf,
                                     !.invocations = 1]
          /\ held' = Suspended(call, on_called[s], nextHook)
    /\ UNCHANGED <<objects, on_called, entities, nextHook, evalCount>>
    /\ UNCHANGED <<globals, backend, last>>

\* the nested call has returned to the host function, whose invocation goes on
NestedReturn ==
    /\ Nested /\ call.pc = "done"
    /\ call' = held.frame
    /\ held' = NoEntity
    /\ UNCHANGED <<objects, on_called, entities, nextHook, evalCount>>
    /\ UNCHANGED <<globals, backend, last>>

\* the outer call has returned to the embedder
TopReturn ==
    /\ ~Nested
    /\ Return

NextNested ==
    \/ \E ty \in Signatures : NewWithEnv(MarshalStore, ty)
    \/ \E s \in Stores : HostOnCalled(s)
    \/ \E e \in DynamicFunctions, params \in RegistryParams :
          TopCall(e.handle, MarshalStore, params)
    \/ \E e \in DynamicFunctions, params \in RegistryParams :
          NestedCall(e.handle, params)
    \/ \E ret \in RegistryReturns : NativeReturn(ret)
    \/ \E out \in HookOutcomes : HookReturn(out)
    \/ NestedReturn
    \/ TopReturn

SpecNested == InitEntity /\ [][NextNested]_vars

\* C30: a hook the host function installed before it made a nested call on
\* the same store is not run by the nested call: the hook the nested call's
\* loop runs was installed after the nested call began, and the hook that was
\* pending when the nested call began is pending, never run, for as long as
\* the nested call lasts, so that the loop of the outer call runs it.
C30_HookOfItsCall ==
    Nested =>
        /\ call.pc = "in_hook" => call.running >= held.hooksBefore
        /\ (held.slot # 0 /\ nextHook = held.hooksBefore) =>
              (on_called[call.store] = held.slot /\ evalCount[held.slot] = 0)

====
